---------------------------- MODULE Spec2Model ----------------------------
(***************************************************************************)
(* Model of gui.py, the operator panel of the UAV test stand: the event    *)
(* loop of the main window, the blocking command()/response exchange over  *)
(* the serial port, and the handlers of the buttons.                       *)
(*                                                                         *)
(* One step from pc = "wait" is one iteration of the event loop: the       *)
(* window.read() that returns an event together with the current contents  *)
(* of the input fields, followed by the handler of that event.  A handler  *)
(* that calls command() stops at pc = "command"; the poll loop of          *)
(* command() then runs one iteration per step, interleaved with the        *)
(* passing of time and with the controller's output, and the step in which *)
(* command() returns also runs the rest of the handler.  The measure and   *)
(* the visualize handler stop at pc = "show" while visualize() shows the   *)
(* chart: the window takes clicks then, and the handler ends when the      *)
(* chart is closed.                                                        *)
(***************************************************************************)
EXTENDS Integers, Sequences, FiniteSets, TLC

VARIABLES
    pc,             \* "wait" | "command" | "readline" | "show" | "exited" |
                    \* "crashed"
    event,          \* the event last returned by window.read()
    values,         \* the contents of the input fields at the last read
    window_state,   \* the dict window_state
    disabled,       \* disabled flag of every widget the program updates
    ser,            \* the serial connection: "unbound" | "open" | "closed"
    inbox,          \* complete lines / trailing bytes waiting in the port
    elapsed,        \* time.time() - start_t of the last command() call
    call,           \* arguments of the last command() call
    result,         \* the main loop's variable result
    data,           \* the main loop's variable data
    measure_param,  \* the main loop's variable measure_param
    chart,          \* what ./temp/visualized.png was rendered from
    saved,          \* what the save handler wrote to the storage directory
    popup,          \* the acknowledgment popup shown by the last handler
    history,        \* milestones printed on the console so far
    written,        \* the bytes last written to the serial port
    answer,         \* what the confirmation popup of the last handler returned
    clicked         \* the button click the window recorded for the next read

vars == <<pc, event, values, window_state, disabled, ser, inbox, elapsed, call,
          result, data, measure_param, chart, saved, popup, history, written,
          answer, clicked>>

---------------------------------------------------------------------------
(* Parameters of the program *)

SYSINIT_TIMEOUT == 25
MEASURE_TIMEOUT == 120

(* Bounds of the model *)

\* the clock is observed every TickStep seconds
TickStep == 5
\* lines the port buffers at most while command() polls
MaxInbox == 1

---------------------------------------------------------------------------
(* Values *)

\* Python's None, and a key a JSON object does not have
None == "<None>"
Absent == "<absent>"

\* ports listed by comports() when the window is made
Ports == {"COM3", "COM4"}
\* what the operator can have typed or chosen when an event is read
Names == {"", "run1", "run2"}
\* the Combo offers 10 and 20, is not read-only, and is empty at start
Resolutions == {"", "10", "15", "20"}
\* the Slider only yields values of its range
Scales == {"0.5", "1.0"}
Folders == {"", "/tmp"}
\* the paths os.path.exists() answers True for
ExistingPaths == {"/tmp"}

\* the values the session configuration is documented to allow for the slider
\* and the combo
ScaleRange == {"0.1", "0.2", "0.3", "0.4", "0.5", "0.6", "0.7", "0.8", "0.9", "1.0"}
ResolutionChoices == {"10", "20"}

Widgets == {"-CONNECT-", "-PORT-", "-LOCK-", "-RESOLUTION-", "-OUTPUT SCALE-",
            "-FOLDER-", "-BROWSE-", "-SYS INIT-", "-MEASURE-", "-VISUALIZE-",
            "-SAVE N EXIT-"}

\* widgets created with disabled=True
InitiallyDisabled == {"-LOCK-", "-SYS INIT-", "-MEASURE-", "-VISUALIZE-",
                      "-SAVE N EXIT-"}

\* widget[k].update(disabled=flag) for every k of keys
Update(d, keys, flag) == [k \in Widgets |-> IF k \in keys THEN flag ELSE d[k]]

---------------------------------------------------------------------------
(* Lines received from the controller *)

\* a received line: nl says that its newline has arrived, json what
\* json.loads makes of the text ("invalid" raises, "array" is a JSON value
\* that is no object); response_type, ok and data are the object's fields.
Line(nl, json, rt, ok, dt) ==
    [nl |-> nl, json |-> json, response_type |-> rt, ok |-> ok, data |-> dt]

Garbage == Line(TRUE, "invalid", Absent, Absent, Absent)
JsonArray == Line(TRUE, "array", Absent, Absent, Absent)
Obj(rt, ok, dt) == Line(TRUE, "object", rt, ok, dt)

Lines ==
    { Garbage, JsonArray, Obj(Absent, "true", Absent),
      Obj("sys_init", "true", Absent), Obj("sys_init", "false", Absent),
      Obj("sys_init", Absent, Absent),
      Obj("measure", "true", "table_a"), Obj("measure", "true", "table_b"),
      Obj("measure", "true", Absent), Obj("measure", "false", Absent),
      Obj("measure", Absent, Absent) }

\* bytes that arrived without their newline
Partials ==
    { [l EXCEPT !.nl = FALSE] :
        l \in {Garbage, Obj("sys_init", "true", Absent),
               Obj("measure", "true", "table_a")} }

\* the value of result when command() returned None
NoResult == Line(TRUE, None, Absent, Absent, Absent)

\* json.loads(...) raises on text that is no JSON
JsonLoadsRaises(line) == line.json = "invalid"

\* result['response_type'] raises TypeError unless result is a dict, and
\* KeyError when the dict has no such key
SubscriptRaises(line, key) ==
    \/ line.json # "object"
    \/ key = "response_type" /\ line.response_type = Absent
    \/ key = "ok" /\ line.ok = Absent
    \/ key = "data" /\ line.data = Absent

\* TryAccept without the assert on response_type
TryAccept_AnyType(line, response_type) ==
    /\ ~JsonLoadsRaises(line)
    /\ ~SubscriptRaises(line, "response_type")

\* the try block of command(): the line is returned iff no statement of the
\* block raises, the assert included
TryAccept(line, response_type) ==
    /\ ~JsonLoadsRaises(line)
    /\ ~SubscriptRaises(line, "response_type")
    /\ line.response_type = response_type

\* TimedOut with >= for >
TimedOut_AtCeiling(t, timeout) == t >= timeout

\* the timeout test at the head of each poll iteration
TimedOut(t, timeout) == t > timeout

---------------------------------------------------------------------------
(* Measurement data and the quantities visualize() derives *)

Record(throttle, rpm, voltage, current, thrust) ==
    [throttle |-> throttle, rpm |-> rpm, voltage |-> voltage,
     current |-> current, thrust |-> thrust]

\* the list of records a response carries under the table's name
Table(id) ==
    IF id = "table_a"
    THEN << Record(50, 3000, 10, 2, 4) >>
    ELSE << Record(0, 0, 0, 0, 1), Record(10, 900, 5, 0, 0),
            Record(20, 1500, 0, 3, -2), Record(50, 3000, 10, 2, 4),
            Record(100, 6000, 12, 3, 9), Record(30, 2000, 12, -1, 3) >>

\* the columns of pd.DataFrame(result['data'])
RawColumns == <<"throttle", "rpm", "voltage", "current", "thrust">>

\* data = pd.DataFrame(result['data']), and data before any measurement
DataFrame(id) == [table |-> id, columns |-> RawColumns]
NoData == [table |-> None, columns |-> << >>]

Abs(n) == IF n < 0 THEN -n ELSE n
RECURSIVE Gcd(_, _)
Gcd(a, b) == IF b = 0 THEN a ELSE Gcd(b, a % b)

\* a float64: a fraction in lowest terms, or one of inf, -inf, nan
Float(kind, num, den) == [kind |-> kind, num |-> num, den |-> den]
Fraction(n, d) ==
    LET g == Gcd(Abs(n), Abs(d))
        sign == IF d < 0 THEN -1 ELSE 1
    IN  Float("finite", sign * (n \div g), sign * (d \div g))

\* a power column that adds where it should multiply
Power_Sum(r) == r.voltage + r.current

\* calculated_data['power'] = voltage * current
Power(r) == r.voltage * r.current

\* calculated_data['efficiency'] = thrust / power, as pandas divides: a zero
\* divisor raises nothing and gives inf, -inf or nan
Divide(x, y) ==
    IF y # 0 THEN Fraction(x, y)
    ELSE IF x > 0 THEN Float("inf", 0, 0)
    ELSE IF x < 0 THEN Float("-inf", 0, 0)
    ELSE Float("nan", 0, 0)

Efficiency(r) == Divide(r.thrust, Power(r))

\* the derived columns of calculated_data, row by row
Derived(rows) ==
    [i \in 1..Len(rows) |-> [power |-> Power(rows[i]),
                             efficiency |-> Efficiency(rows[i])]]

\* calculated_data: a copy of the frame with the two columns added
HasColumn(cols, c) == \E i \in 1..Len(cols) : cols[i] = c
WithColumn(cols, c) == IF HasColumn(cols, c) THEN cols ELSE Append(cols, c)
Calculated(df) ==
    [df EXCEPT !.columns = WithColumn(WithColumn(@, "power"), "efficiency")]

\* a visualize() that adds its columns to the caller's frame
AfterVisualize_NoCopy(df) == Calculated(df)

\* the frame passed to visualize() after the call: the columns go to a copy
AfterVisualize(df) == df

---------------------------------------------------------------------------
(* Initial state: the window as make_window() lays it out *)

NoCall == [cmd |-> [command_type |-> None, steps |-> Absent,
                    throttle_scale |-> Absent],
           response_type |-> None, timeout |-> 0]

\* measure_param before a measurement, and the storage directory before a save
NoParam == [session_name |-> None, output_scale |-> None]
NoChart == [data |-> NoData, columns |-> << >>, rows |-> << >>, session_name |-> None,
            output_scale |-> None]
\* the clock readings datetime.now() is drawn from
Now(year, month, day, hour, minute, second) ==
    [year |-> year, month |-> month, day |-> day, hour |-> hour,
     minute |-> minute, second |-> second]
Nows == {Now(2026, 10, 30, 14, 27, 3), Now(2009, 3, 7, 9, 5, 59)}

\* a zero-padded two-digit decimal field, without the padding
TwoDigits_Unpadded(n) == IF n < 10 THEN <<n>> ELSE <<n \div 10, n % 10>>

\* a zero-padded two-digit decimal field of strftime
TwoDigits(n) == <<n \div 10, n % 10>>

\* now.strftime("%y%m%d-%H%M")
Strftime(now) ==
    [yy |-> TwoDigits(now.year % 100), mm |-> TwoDigits(now.month),
     dd |-> TwoDigits(now.day), HH |-> TwoDigits(now.hour),
     MM |-> TwoDigits(now.minute)]
NoStamp == [yy |-> << >>, mm |-> << >>, dd |-> << >>, HH |-> << >>, MM |-> << >>]

\* data.to_csv(path, index=False): the column names, then one line per record
ToCsv(df) ==
    [header |-> df.columns,
     lines |-> [i \in 1..Len(Table(df.table)) |-> Table(df.table)[i]]]
NoCsv == [header |-> << >>, lines |-> << >>]

\* the storage subdirectory {folder}/{name}_{stamp} and the three files in it
NoSave == [folder |-> None, name |-> None, stamp |-> NoStamp,
           measure_param |-> NoParam, csv |-> NoCsv, chart |-> NoChart]

\* nothing written to the port yet; no confirmation asked by the handler
NoWrite == [json |-> None, body |-> NoCall.cmd, nl |-> FALSE, flushed |-> FALSE]
NotAsked == "<not asked>"

Init ==
    /\ pc = "wait"
    /\ event = None
    /\ values = [name |-> "", resolution |-> "", scale |-> "1.0", folder |-> ""]
    /\ window_state = [port |-> None, name |-> None, resolution |-> None,
                       scale |-> None, folder |-> None]
    /\ disabled = [k \in Widgets |-> k \in InitiallyDisabled]
    /\ ser = "unbound"
    /\ inbox = << >>
    /\ elapsed = 0
    /\ call = NoCall
    /\ result = NoResult
    /\ data = NoData
    /\ measure_param = NoParam
    /\ chart = NoChart
    /\ saved = NoSave
    /\ popup = ""
    /\ history = {}
    /\ written = NoWrite
    /\ answer = NotAsked
    /\ clicked = None

---------------------------------------------------------------------------
(* window.read() *)

\* the contents of the input fields an event can be read with: the operator
\* may have changed every field that is not disabled since the last read
ReadValues ==
    { v \in [name : Names, resolution : Resolutions, scale : Scales,
             folder : Folders] :
        /\ disabled["-RESOLUTION-"] => v.resolution = values.resolution
        /\ disabled["-OUTPUT SCALE-"] => v.scale = values.scale
        /\ (disabled["-FOLDER-"] /\ disabled["-BROWSE-"]) => v.folder = values.folder }

\* the loop reads event e: the click the window has recorded, whatever its
\* button is by now, or else a new event, which a disabled widget does not
\* raise
Read(e) ==
    /\ pc = "wait"
    /\ IF clicked # None THEN e = clicked ELSE (e \in Widgets => ~disabled[e])
    /\ event' = e
    /\ values' \in ReadValues
    /\ clicked' = None

\* the variables no handler but command()'s touches
CommandIdle == UNCHANGED <<inbox, elapsed, call, result>>
\* the variables only the measure, visualize and save handlers touch
ResultsIdle == UNCHANGED <<data, measure_param, chart, saved>>

---------------------------------------------------------------------------
(* Handlers of the serial setup and of the session information *)

\* if event == '-PORT-'
SelectPort(p) ==
    /\ Read("-PORT-")
    /\ window_state' = [window_state EXCEPT !.port = p]
    /\ popup' = ""
    /\ answer' = NotAsked
    /\ UNCHANGED <<pc, disabled, ser, history, written>>
    /\ CommandIdle /\ ResultsIdle

\* the Combo of the resolution raises an event that no handler takes
SelectResolution ==
    /\ Read("-RESOLUTION-")
    /\ popup' = ""
    /\ answer' = NotAsked
    /\ UNCHANGED <<pc, window_state, disabled, ser, history, written>>
    /\ CommandIdle /\ ResultsIdle

\* the greeting the connect handler writes: plain text, no newline, and the
\* port is closed without a flush
Hello == [json |-> "invalid", body |-> NoCall.cmd, nl |-> FALSE, flushed |-> FALSE]

\* AfterConnect without the update of the port selection
AfterConnect_KeepsPort(d) ==
    Update(Update(d, {"-CONNECT-"}, TRUE), {"-LOCK-"}, FALSE)

\* the widget updates after a successful connect
AfterConnect(d) ==
    Update(Update(d, {"-CONNECT-", "-PORT-"}, TRUE), {"-LOCK-"}, FALSE)

\* if event == '-CONNECT-' and window_state['-PORT-'] != None
Connect(openOk, writeOk) ==
    /\ Read("-CONNECT-")
    /\ IF window_state.port = None
       THEN /\ popup' = ""
            /\ UNCHANGED <<disabled, ser, history, written>>
       ELSE IF ~openOk
       THEN \* serial.Serial() raised: ser keeps what it was bound to
            /\ popup' = "Connecting Failed."
            /\ UNCHANGED <<disabled, ser, history, written>>
       ELSE IF ~writeOk
       THEN \* ser.write() raised: ser.close() is skipped
            /\ ser' = "open"
            /\ popup' = "Connecting Failed."
            /\ UNCHANGED <<disabled, history, written>>
       ELSE /\ ser' = "closed"
            /\ written' = Hello
            /\ disabled' = AfterConnect(disabled)
            /\ popup' = "Serial Connection OK!"
            /\ history' = history \cup {"Serial connection ok!"}
    /\ answer' = NotAsked
    /\ UNCHANGED <<pc, window_state>>
    /\ CommandIdle /\ ResultsIdle

\* the four asserts of the lock handler; os.path.exists() raises on None,
\* which the bare except takes like a failed assert
LockAsserts(ws) ==
    /\ ws.name # None
    /\ ws.name # ""
    /\ ws.resolution # None
    /\ ws.folder # None /\ ws.folder \in ExistingPaths

\* the widget updates after a successful lock
AfterLock(d) ==
    Update(Update(d, {"-RESOLUTION-", "-OUTPUT SCALE-", "-FOLDER-", "-BROWSE-",
                      "-LOCK-"}, TRUE),
           {"-SYS INIT-"}, FALSE)

\* if event == '-LOCK-'
Lock ==
    /\ Read("-LOCK-")
    /\ window_state' = [window_state EXCEPT !.name = values'.name,
                                            !.resolution = values'.resolution,
                                            !.scale = values'.scale,
                                            !.folder = values'.folder]
    /\ IF LockAsserts(window_state')
       THEN /\ disabled' = AfterLock(disabled)
            /\ popup' = "Session Information Locked!"
            /\ history' = history \cup {"Session information locked!"}
       ELSE /\ popup' = "Failed to Lock the Session Information!"
            /\ UNCHANGED <<disabled, history>>
    /\ answer' = NotAsked
    /\ UNCHANGED <<pc, ser, written>>
    /\ CommandIdle /\ ResultsIdle

---------------------------------------------------------------------------
(* command(ser, cmd, response_type, timeout) *)

\* json.dumps(cmd).encode(): the JSON object of cmd, and nothing after it
Dumps(cmd) == [json |-> "object", body |-> cmd, nl |-> FALSE, flushed |-> FALSE]

\* the handler up to the first poll of command(): the port is opened, the
\* command written and flushed, start_t taken.  serial.Serial() and
\* ser.write() are outside any try: an exception of either ends the program.
StartCommand(cmd, response_type, timeout, openOk, writeOk) ==
    /\ popup' = ""
    /\ IF ~openOk
       THEN /\ pc' = "crashed"
            /\ UNCHANGED <<ser, inbox, elapsed, call, written>>
       ELSE IF ~writeOk
       THEN /\ pc' = "crashed"
            /\ ser' = "open"
            /\ UNCHANGED <<inbox, elapsed, call, written>>
       ELSE /\ pc' = "command"
            /\ ser' = "open"
            /\ written' = [Dumps(cmd) EXCEPT !.flushed = TRUE]
            /\ inbox' = << >>
            /\ elapsed' = 0
            /\ call' = [cmd |-> cmd, response_type |-> response_type,
                        timeout |-> timeout]
    /\ UNCHANGED <<window_state, disabled, result, history>>
    /\ ResultsIdle

\* the widget updates of the sys_init handler, by what command() returned
SysInitWidgets(r, d) ==
    IF r = NoResult THEN d
    ELSE IF r.ok = "true"
    THEN Update(Update(d, {"-SYS INIT-"}, TRUE), {"-MEASURE-"}, FALSE)
    ELSE d

\* the sys_init handler from the return of command() on
AfterSysInit(r) ==
    /\ ser' = "closed"
    /\ IF r = NoResult
       THEN /\ pc' = "wait"
            /\ popup' = "System Initialization Timeout!"
            /\ UNCHANGED history
       ELSE IF SubscriptRaises(r, "ok")
       THEN \* KeyError of result['ok'], outside any try
            /\ pc' = "crashed"
            /\ UNCHANGED <<popup, history>>
       ELSE IF r.ok = "true"
       THEN /\ pc' = "wait"
            /\ popup' = "System Initialized!"
            /\ history' = history \cup {"System initialized!"}
       ELSE /\ pc' = "wait"
            /\ popup' = "System Initialization Failed!"
            /\ UNCHANGED history
    /\ disabled' = IF pc' = "crashed" THEN disabled ELSE SysInitWidgets(r, disabled)
    /\ ResultsIdle

\* visualize(data, measure_param): the chart written to ./temp/visualized.png
\* a measure handler whose visualization pass renders nothing
Visualized_NotRendered(d, param) == NoChart

Visualized(d, param) ==
    [data |-> d, columns |-> Calculated(d).columns,
     rows |-> Derived(Table(d.table)),
     session_name |-> param.session_name, output_scale |-> param.output_scale]

\* MeasureParam read from the input fields instead of window_state
MeasureParam_FromFields(ws, v) ==
    [session_name |-> v.name, output_scale |-> v.scale]

\* measure_param as the measure handler builds it
MeasureParam(ws, v) ==
    [session_name |-> ws.name, output_scale |-> ws.scale]

\* MeasureWidgets without the lockout of the failure branch
MeasureWidgets_NoLockout(r, d) ==
    IF r = NoResult THEN d
    ELSE IF r.ok = "true"
    THEN Update(Update(d, {"-MEASURE-"}, TRUE),
                {"-VISUALIZE-", "-SAVE N EXIT-"}, FALSE)
    ELSE d

\* the widget updates of the measure handler, by what command() returned
MeasureWidgets(r, d) ==
    IF r = NoResult THEN d
    ELSE IF r.ok = "true"
    THEN Update(Update(d, {"-MEASURE-"}, TRUE),
                {"-VISUALIZE-", "-SAVE N EXIT-"}, FALSE)
    ELSE Update(d, {"-MEASURE-"}, TRUE)

\* the measure handler from the return of command() on; on ok:true it stops
\* in visualize(), whose plt.show() blocks with the chart written
AfterMeasure(r) ==
    /\ ser' = "closed"
    /\ IF r = NoResult
       THEN /\ pc' = "wait"
            /\ popup' = "Measurement Timeout!"
            /\ UNCHANGED <<history, data, measure_param, chart>>
       ELSE IF SubscriptRaises(r, "ok")
       THEN \* KeyError of result['ok'], outside any try
            /\ pc' = "crashed"
            /\ UNCHANGED <<popup, history, data, measure_param, chart>>
       ELSE IF r.ok = "true"
       THEN IF SubscriptRaises(r, "data")
            THEN \* KeyError of result['data'], outside any try
                 /\ pc' = "crashed"
                 /\ UNCHANGED <<popup, history, data, measure_param, chart>>
            ELSE /\ pc' = "show"
                 /\ data' = AfterVisualize(DataFrame(r.data))
                 /\ measure_param' = MeasureParam(window_state, values)
                 /\ chart' = Visualized(DataFrame(r.data), measure_param')
                 /\ UNCHANGED <<popup, history>>
       ELSE /\ pc' = "wait"
            /\ popup' = "Measurement Failed!"
            /\ history' = history \cup {"Measurement failed!"}
            /\ UNCHANGED <<data, measure_param, chart>>
    /\ disabled' = IF pc' = "wait" THEN MeasureWidgets(r, disabled) ELSE disabled
    /\ UNCHANGED saved

\* the buttons of the window that raise an event when clicked
ShownButtons == {"-CONNECT-", "-LOCK-", "-SYS INIT-", "-MEASURE-", "-VISUALIZE-",
                 "-SAVE N EXIT-", "-TERMINATE-"}

\* the operator clicks a button of the window while the chart is shown: the
\* window records the click for the next window.read()
ClickWhileShown(e) ==
    /\ pc = "show"
    /\ e \in Widgets => ~disabled[e]
    /\ clicked' = e
    /\ UNCHANGED <<pc, event, values, window_state, disabled, ser, inbox, elapsed,
                   call, result, data, measure_param, chart, saved, popup,
                   history, written, answer>>

\* the chart is closed: plt.show() returns and the handler that called
\* visualize() runs to its end, which for the visualize handler is at once
CloseChart ==
    /\ pc = "show"
    /\ pc' = "wait"
    /\ IF event = "-MEASURE-"
       THEN /\ disabled' = MeasureWidgets(result, disabled)
            /\ popup' = "The Measurement Was Completed Flawlessly :D"
            /\ history' = history \cup
                   {"The measurement was completed flawlessly :D"}
       ELSE UNCHANGED <<disabled, popup, history>>
    /\ UNCHANGED <<event, values, window_state, ser, inbox, elapsed, call, result,
                   data, measure_param, chart, saved, written, answer, clicked>>

\* command() returns r to the handler that called it, which runs to its end
Return(r) ==
    /\ result' = r
    /\ inbox' = << >>
    /\ IF call.cmd.command_type = "sys_init" THEN AfterSysInit(r) ELSE AfterMeasure(r)
    /\ UNCHANGED <<event, values, window_state, elapsed, call, written, answer,
                   clicked>>

\* ser.readline() and the rest of the try block.  The port was opened with
\* no read timeout, so readline() returns only with a newline.
ReadLine ==
    IF ~Head(inbox).nl
    THEN /\ pc' = "readline"
         /\ UNCHANGED <<event, values, window_state, disabled, ser, inbox, elapsed,
                        call, result, data, measure_param, chart, saved, popup,
                        history,
                   written, answer, clicked>>
    ELSE IF TryAccept(Head(inbox), call.response_type)
    THEN Return(Head(inbox))
    ELSE \* except: continue
         /\ pc' = "command"
         /\ inbox' = Tail(inbox)
         /\ UNCHANGED <<event, values, window_state, disabled, ser, elapsed, call,
                        result, data, measure_param, chart, saved, popup, history,
                   written, answer, clicked>>

\* one iteration of the poll loop that changes something: the timeout test,
\* then the line that is waiting
Poll ==
    /\ pc = "command"
    /\ IF TimedOut(elapsed, call.timeout)
       THEN Return(NoResult)
       ELSE inbox # << >> /\ ReadLine

\* the newline readline() was blocked on has arrived
ReadLineReturns ==
    /\ pc = "readline"
    /\ Head(inbox).nl
    /\ ReadLine

---------------------------------------------------------------------------
(* The clock and the controller while command() polls *)

InCommand == pc \in {"command", "readline"}

\* time passes; the clock is followed until it is past the ceiling
Tick ==
    /\ InCommand
    /\ elapsed <= call.timeout
    /\ elapsed' = elapsed + TickStep
    /\ UNCHANGED <<pc, event, values, window_state, disabled, ser, inbox, call,
                   result, data, measure_param, chart, saved, popup, history,
                   written, answer, clicked>>

\* the controller sends a line, or bytes without their newline
Deliver(l) ==
    /\ pc = "command"
    /\ Len(inbox) < MaxInbox
    /\ inbox # << >> => inbox[Len(inbox)].nl
    /\ inbox' = Append(inbox, l)
    /\ UNCHANGED <<pc, event, values, window_state, disabled, ser, elapsed, call,
                   result, data, measure_param, chart, saved, popup, history,
                   written, answer, clicked>>

\* the controller sends the newline of the bytes it sent before
CompleteLine ==
    /\ InCommand
    /\ inbox # << >>
    /\ ~inbox[Len(inbox)].nl
    /\ inbox' = [inbox EXCEPT ![Len(inbox)].nl = TRUE]
    /\ UNCHANGED <<pc, event, values, window_state, disabled, ser, elapsed, call,
                   result, data, measure_param, chart, saved, popup, history,
                   written, answer, clicked>>

---------------------------------------------------------------------------
(* Handlers of the measuring control *)

\* a handler that takes every answer of the popup for a confirmation
Dismissed_Never(a) == FALSE

\* sg.popup(...) == None: the operator closed the popup without its button
Dismissed(a) == a = None

SysInitCmd == [command_type |-> "sys_init", steps |-> Absent,
               throttle_scale |-> Absent]

\* if event == '-SYS INIT-'
SysInit(confirm, openOk, writeOk) ==
    /\ Read("-SYS INIT-")
    /\ answer' = IF confirm THEN "Sys Init" ELSE None
    /\ IF Dismissed(answer')
       THEN /\ popup' = ""
            /\ UNCHANGED <<pc, window_state, disabled, ser, history, written>>
            /\ CommandIdle /\ ResultsIdle
       ELSE StartCommand(SysInitCmd, "sys_init", SYSINIT_TIMEOUT, openOk, writeOk)

\* MeasureCmd with the number of steps hard-coded
MeasureCmd_FixedSteps(ws, v) ==
    [command_type |-> "measure", steps |-> "10", throttle_scale |-> ws.scale]

MeasureCmd(ws, v) == [command_type |-> "measure", steps |-> ws.resolution,
                      throttle_scale |-> ws.scale]

\* if event == '-MEASURE-'
Measure(confirm, openOk, writeOk) ==
    /\ Read("-MEASURE-")
    /\ answer' = IF confirm THEN "Measure" ELSE None
    /\ IF Dismissed(answer')
       THEN /\ popup' = ""
            /\ UNCHANGED <<pc, window_state, disabled, ser, history, written>>
            /\ CommandIdle /\ ResultsIdle
       ELSE StartCommand(MeasureCmd(window_state, values'), "measure",
                         MEASURE_TIMEOUT, openOk, writeOk)

\* a visualize handler that can be used once only
Visualize_Once ==
    /\ Read("-VISUALIZE-")
    /\ pc' = "show"
    /\ chart' = Visualized(data, measure_param)
    /\ data' = AfterVisualize(data)
    /\ disabled' = Update(disabled, {"-VISUALIZE-"}, TRUE)
    /\ popup' = ""
    /\ answer' = NotAsked
    /\ UNCHANGED <<window_state, ser, history, measure_param, saved, written>>
    /\ CommandIdle

\* if event == '-VISUALIZE-': the handler stops in visualize(), whose
\* plt.show() blocks with the chart written
Visualize ==
    /\ Read("-VISUALIZE-")
    /\ pc' = "show"
    /\ chart' = Visualized(data, measure_param)
    /\ data' = AfterVisualize(data)
    /\ popup' = ""
    /\ answer' = NotAsked
    /\ UNCHANGED <<window_state, disabled, ser, history, measure_param, saved,
                   written>>
    /\ CommandIdle

\* after the loop: window.close(), and ser.close() inside a try
CloseAtExit == ser' = IF ser = "unbound" THEN "unbound" ELSE "closed"

\* if event == '-SAVE N EXIT-'
SaveAndExit(now) ==
    /\ Read("-SAVE N EXIT-")
    /\ saved' = [folder |-> window_state.folder, name |-> window_state.name,
                 stamp |-> Strftime(now), measure_param |-> measure_param,
                 csv |-> ToCsv(data), chart |-> chart]
    /\ pc' = "exited"
    /\ popup' = ""
    /\ CloseAtExit
    /\ answer' = NotAsked
    /\ UNCHANGED <<window_state, disabled, history, data, measure_param, chart,
                   written>>
    /\ CommandIdle

\* if event == '-TERMINATE-'
\* a terminate handler that ends the session whatever the operator answers
Terminate_Unasked(confirm) ==
    /\ Read("-TERMINATE-")
    /\ popup' = ""
    /\ answer' = IF confirm THEN "Terminate" ELSE None
    /\ pc' = "exited" /\ CloseAtExit
    /\ UNCHANGED <<window_state, disabled, history, written>>
    /\ CommandIdle /\ ResultsIdle

Terminate(confirm) ==
    /\ Read("-TERMINATE-")
    /\ popup' = ""
    /\ answer' = IF confirm THEN "Terminate" ELSE None
    /\ IF Dismissed(answer')
       THEN UNCHANGED <<pc, ser>>
       ELSE pc' = "exited" /\ CloseAtExit
    /\ UNCHANGED <<window_state, disabled, history, written>>
    /\ CommandIdle /\ ResultsIdle

---------------------------------------------------------------------------
(* The program *)

Next ==
    \/ \E p \in Ports : SelectPort(p)
    \/ SelectResolution
    \/ \E openOk, writeOk \in BOOLEAN : Connect(openOk, writeOk)
    \/ Lock
    \/ \E confirm, openOk, writeOk \in BOOLEAN : SysInit(confirm, openOk, writeOk)
    \/ \E confirm, openOk, writeOk \in BOOLEAN : Measure(confirm, openOk, writeOk)
    \/ Visualize
    \/ \E now \in Nows : SaveAndExit(now)
    \/ \E confirm \in BOOLEAN : Terminate(confirm)
    \/ Poll
    \/ ReadLineReturns
    \/ \E e \in ShownButtons : ClickWhileShown(e)
    \/ CloseChart
    \/ Tick
    \/ \E l \in Lines \cup Partials : Deliver(l)
    \/ CompleteLine

Spec == Init /\ [][Next]_vars

\* The poll loop keeps running, a readline() whose newline is there returns,
\* and time keeps passing; nothing obliges the operator or the controller to
\* act.
FairSpec ==
    Spec /\ WF_vars(Poll) /\ WF_vars(ReadLineReturns) /\ WF_vars(Tick)

---------------------------------------------------------------------------
(* Steps and milestones the properties speak about *)

Connected == "Serial connection ok!" \in history
Locked == "Session information locked!" \in history
Initialized == "System initialized!" \in history
Measured == "The measurement was completed flawlessly :D" \in history
MeasureFailed == "Measurement failed!" \in history

\* the loop reads event e and runs its handler
HandlerRuns(e) == pc = "wait" /\ event' = e
\* a handler writes the command of type t and enters command()'s poll loop
CommandSent(t) == pc = "wait" /\ pc' = "command" /\ call'.cmd.command_type = t
\* command() of a command of type t returns (and its handler finishes)
CommandReturns(t) == InCommand /\ ~InCommand' /\ call.cmd.command_type = t
\* the lock handler runs and takes its success path
LockSucceeds == HandlerRuns("-LOCK-") /\ popup' = "Session Information Locked!"

---------------------------------------------------------------------------
(* Properties *)

\* C1: the session only moves forward through Disconnected, Connected,
\* Locked, Initialized, Measured: lock succeeds only after a successful
\* connect, a sys_init command is sent only after a successful lock, a
\* measure command only after a sys_init answered ok:true, visualize and save
\* run only after a measure answered ok:true; no handler of connect, lock,
\* sys_init or measure runs again once that action has succeeded, and no
\* milestone is ever undone or skipped.
C1_ForwardOrder ==
    [][ /\ HandlerRuns("-CONNECT-") => ~Connected
        /\ HandlerRuns("-LOCK-") => Connected /\ ~Locked
        /\ HandlerRuns("-SYS INIT-") => Locked /\ ~Initialized
        /\ CommandSent("sys_init") => Locked /\ ~Initialized
        /\ HandlerRuns("-MEASURE-") => Initialized /\ ~Measured
        /\ CommandSent("measure") => Initialized /\ ~Measured
        /\ HandlerRuns("-VISUALIZE-") => Measured
        /\ HandlerRuns("-SAVE N EXIT-") => Measured
        /\ history \subseteq history'
        /\ Locked' => Connected'
        /\ Initialized' => Locked'
        /\ (Measured' \/ MeasureFailed') => Initialized'
      ]_vars

\* C2: once a measure command was answered ok:false the measure handler never
\* runs again, so no further measure command is issued, whatever the operator
\* does; a sys_init answered ok:false leaves the sys_init button enabled.
C2_MeasureLockout ==
    [][ /\ HandlerRuns("-MEASURE-") => ~MeasureFailed
        /\ CommandSent("measure") => ~MeasureFailed
        /\ (CommandReturns("measure") /\ pc' = "wait" /\ result' # NoResult
                /\ result'.ok = "false")
             => MeasureFailed' /\ disabled'["-MEASURE-"]
        /\ (CommandReturns("sys_init") /\ pc' = "wait" /\ result' # NoResult
                /\ result'.ok = "false")
             => ~disabled'["-SYS INIT-"] /\ disabled'["-MEASURE-"]
      ]_vars

\* C2 witness: after the failed measurement the operator went on acting
C2_Witness ==
    /\ MeasureFailed
    /\ pc = "wait" /\ event = "-TERMINATE-"
    /\ result = Obj("measure", "false", Absent)

\* C3: command() returns a line only if the line is complete, parses as a
\* JSON object and carries the expected response_type; a line it drops is
\* none of these, and dropping it reports nothing and changes nothing else;
\* command() leaves its loop only with such a line or past the ceiling.
C3_OnlyMatchingReturned ==
    [][ /\ (InCommand /\ ~InCommand' /\ result' # NoResult)
             => /\ inbox # << >>
                /\ result' = Head(inbox)
                /\ Head(inbox).nl
                /\ Head(inbox).json = "object"
                /\ Head(inbox).response_type = call.response_type
        /\ (InCommand /\ ~InCommand' /\ result' = NoResult)
             => elapsed > call.timeout
        /\ (InCommand /\ InCommand' /\ Len(inbox') < Len(inbox))
             => /\ inbox' = Tail(inbox)
                /\ \/ Head(inbox).json # "object"
                   \/ Head(inbox).response_type # call.response_type
                /\ UNCHANGED <<popup, history, result, disabled, data, elapsed>>
      ]_vars

\* C3 witness: command() has returned a matching response after waiting
C3_Witness ==
    /\ pc = "wait"
    /\ call.response_type = "sys_init"
    /\ result = Obj("sys_init", "true", Absent)
    /\ elapsed > 0

\* C4: once a command is sent command() eventually returns, whatever the
\* connection delivers (bytes without a newline included).
C4_CommandEventuallyReturns == InCommand ~> ~InCommand

\* C5: command() returns None only in a poll iteration that finds the
\* elapsed time above the ceiling of the command sent: 25 s for sys_init,
\* the larger 120 s for measure.
C5_NoEarlyTimeout ==
    /\ SYSINIT_TIMEOUT < MEASURE_TIMEOUT
    /\ [][ /\ (CommandReturns("sys_init") /\ result' = NoResult)
                => elapsed > SYSINIT_TIMEOUT
           /\ (CommandReturns("measure") /\ result' = NoResult)
                => elapsed > MEASURE_TIMEOUT
         ]_vars

\* C5 witness: a measure command has timed out, past its ceiling
C5_Witness ==
    /\ pc = "wait"
    /\ call.cmd.command_type = "measure"
    /\ result = NoResult
    /\ popup = "Measurement Timeout!"
    /\ elapsed > MEASURE_TIMEOUT

\* C6: a sys_init exchange ends in one of three ways: timeout (state
\* unchanged, reported), ok:false (state unchanged, reported), ok:true
\* (Initialized: measure enabled, sys_init disabled).
C6_ThreeOutcomes ==
    [][ CommandReturns("sys_init") =>
          \/ /\ result' = NoResult
             /\ pc' = "wait"
             /\ popup' = "System Initialization Timeout!"
             /\ UNCHANGED <<disabled, history, window_state>>
          \/ /\ result' # NoResult /\ result'.ok = "false"
             /\ pc' = "wait"
             /\ popup' = "System Initialization Failed!"
             /\ UNCHANGED <<disabled, history, window_state>>
          \/ /\ result' # NoResult /\ result'.ok = "true"
             /\ pc' = "wait"
             /\ popup' = "System Initialized!"
             /\ Initialized'
             /\ disabled'["-SYS INIT-"] /\ ~disabled'["-MEASURE-"]
      ]_vars

\* C7: a measure command that times out leaves the session as it was: no
\* result, visualize and save disabled, measure still enabled.
C7_MeasureTimeoutKeepsState ==
    [][ (CommandReturns("measure") /\ result' = NoResult)
          => /\ pc' = "wait"
             /\ popup' = "Measurement Timeout!"
             /\ UNCHANGED <<disabled, history, window_state, data, measure_param,
                            chart, saved>>
             /\ data' = NoData /\ measure_param' = NoParam
             /\ disabled'["-VISUALIZE-"] /\ disabled'["-SAVE N EXIT-"]
             /\ ~disabled'["-MEASURE-"]
      ]_vars

\* the invariants the session configuration is documented to have
SessionConfigValid(ws) ==
    /\ ws.name # None /\ ws.name # ""
    /\ ws.resolution \in ResolutionChoices
    /\ ws.scale \in ScaleRange
    /\ ws.folder \in ExistingPaths

\* C8: lock succeeds only with a valid session configuration (name non-empty,
\* resolution 10 or 20, scale in [0.1, 1.0], existing storage directory); a
\* failed lock leaves the session Connected and is reported.
C8_LockValidates ==
    [][ /\ LockSucceeds => SessionConfigValid(window_state')
        /\ (HandlerRuns("-LOCK-") /\ ~LockSucceeds)
             => /\ popup' = "Failed to Lock the Session Information!"
                /\ UNCHANGED <<disabled, history>>
                /\ disabled'["-SYS INIT-"] /\ ~disabled'["-LOCK-"]
      ]_vars

\* C9: lock succeeds at most once, and from then on name, resolution, scale
\* and folder of window_state never change; the measure command, the chart
\* title and the save directory use exactly these values, whatever the input
\* fields hold by then.
C9_LockedConfigImmutable ==
    [][ /\ HandlerRuns("-LOCK-") => ~Locked
        /\ LockSucceeds
             => /\ window_state'.name = values'.name
                /\ window_state'.resolution = values'.resolution
                /\ window_state'.scale = values'.scale
                /\ window_state'.folder = values'.folder
        /\ Locked => window_state' = window_state
        /\ CommandSent("measure")
             => /\ call'.cmd.steps = window_state.resolution
                /\ call'.cmd.throttle_scale = window_state.scale
        /\ (CommandReturns("measure") /\ pc' = "show")
             => /\ measure_param'.session_name = window_state.name
                /\ measure_param'.output_scale = window_state.scale
                /\ chart'.session_name = window_state.name
                /\ chart'.output_scale = window_state.scale
        /\ HandlerRuns("-VISUALIZE-")
             => /\ chart'.session_name = window_state.name
                /\ chart'.output_scale = window_state.scale
        /\ HandlerRuns("-SAVE N EXIT-")
             => /\ saved'.folder = window_state.folder
                /\ saved'.name = window_state.name
                /\ saved'.measure_param.session_name = window_state.name
                /\ saved'.measure_param.output_scale = window_state.scale
      ]_vars

\* C9 witness: the name field was edited after the lock, and the session was
\* measured and saved all the same
C9_Witness ==
    /\ Locked /\ Measured
    /\ pc = "exited" /\ event = "-SAVE N EXIT-"
    /\ values.name # window_state.name

\* C10: no error ends the process: the program leaves the event loop only by
\* save-and-exit or by a confirmed terminate.
C10_NoErrorEndsTheProcess ==
    /\ pc # "crashed"
    /\ pc = "exited" => event \in {"-SAVE N EXIT-", "-TERMINATE-"}

\* C11: whenever the program waits for the next operator event, no serial
\* connection is open, whether the last handler succeeded or failed; a
\* command is outstanding only inside the one handler that sent it.
C11_NoConnectionWhileWaiting ==
    /\ pc = "wait" => ser # "open"
    /\ InCommand => ser = "open"

\* a connect handler ran and reported a failure
ConnectFails == HandlerRuns("-CONNECT-") /\ popup' = "Connecting Failed."
\* a connect handler ran and reported success
ConnectSucceeds == HandlerRuns("-CONNECT-") /\ popup' = "Serial Connection OK!"

\* C12: connect is carried out only with a port selected; a failed open or
\* write leaves the session Disconnected (lock disabled, connect and port
\* selection enabled) and is reported, and only a connect event leads to a
\* connect; a successful connect makes the session Connected and disables the
\* port selection, so the port never changes again.
C12_Connect ==
    [][ /\ (HandlerRuns("-CONNECT-") /\ window_state.port = None)
             => /\ popup' = ""
                /\ UNCHANGED <<disabled, ser, history, written, window_state>>
        /\ (pc = "wait" /\ (\/ popup' \in {"Connecting Failed.",
                                          "Serial Connection OK!"}
                           \/ (written' = Hello /\ written # Hello)))
             => event' = "-CONNECT-" /\ window_state.port # None
        /\ ConnectFails
             => /\ UNCHANGED <<disabled, history, window_state>>
                /\ ~Connected'
                /\ disabled'["-LOCK-"]
                /\ ~disabled'["-CONNECT-"] /\ ~disabled'["-PORT-"]
        /\ ConnectSucceeds
             => /\ Connected'
                /\ ~disabled'["-LOCK-"]
                /\ disabled'["-CONNECT-"] /\ disabled'["-PORT-"]
        /\ Connected => /\ window_state'.port = window_state.port
                        /\ disabled'["-PORT-"]
      ]_vars

\* C12 witness: a connect has failed and the session is still Disconnected
C12_Witness ==
    /\ pc = "wait" /\ event = "-CONNECT-"
    /\ popup = "Connecting Failed."
    /\ ~Connected /\ ~disabled["-CONNECT-"]

\* C13: every measure command written to the port carries the resolution of
\* window_state as steps and its scale as throttle_scale, which are the
\* values of the locked (disabled) input fields, and nothing else.
C13_MeasureCommandCarriesConfig ==
    [][ CommandSent("measure")
          => /\ Locked
             /\ call'.cmd = [command_type |-> "measure",
                             steps |-> window_state.resolution,
                             throttle_scale |-> window_state.scale]
             /\ window_state.resolution = values'.resolution
             /\ window_state.scale = values'.scale
             /\ written'.json = "object"
             /\ written'.body = call'.cmd
      ]_vars

\* C13 witness: a measure command with 20 steps at scale 0.5 is outstanding
C13_Witness ==
    /\ pc = "command"
    /\ written.body = [command_type |-> "measure", steps |-> "20",
                       throttle_scale |-> "0.5"]

---------------------------------------------------------------------------
\* C14: the measurement result and its parameters are set only when a
\* measure command returns a response with ok true, from the data of that
\* response as a whole, with the chart rendered from it in the same pass, and
\* visualize and save become available only when that pass has ended; hence in
\* every reachable state where visualize or save is available, the result and
\* its parameters are set and a chart rendered from that same result exists.
C14_ResultBeforeVisualizeAndSave ==
    /\ []((~disabled["-VISUALIZE-"] \/ ~disabled["-SAVE N EXIT-"]) =>
            /\ Measured
            /\ data # NoData
            /\ data.table \in {"table_a", "table_b"}
            /\ data.columns = RawColumns
            /\ measure_param # NoParam
            /\ measure_param = MeasureParam(window_state, values)
            /\ chart # NoChart
            /\ chart.data = data
            /\ chart.rows = Derived(Table(data.table)))
    /\ [][ /\ (data' # data \/ measure_param' # measure_param) =>
               (/\ CommandReturns("measure")
                /\ result'.response_type = "measure" /\ result'.ok = "true"
                /\ data' = DataFrame(result'.data)
                /\ chart'.data = data'
                /\ pc' = "show"
                /\ UNCHANGED disabled)
           /\ (\E k \in {"-VISUALIZE-", "-SAVE N EXIT-"} :
                   disabled[k] /\ ~disabled'[k]) =>
               (/\ pc = "show" /\ pc' = "wait"
                /\ UNCHANGED <<data, measure_param, chart>>)
       ]_vars

\* C14 witness: visualize and save are available over the six-record table
C14_Witness ==
    /\ pc = "wait"
    /\ ~disabled["-VISUALIZE-"] /\ ~disabled["-SAVE N EXIT-"]
    /\ data.table = "table_b"
    /\ Len(chart.rows) = 6

---------------------------------------------------------------------------
\* C15: every run of the visualize handler happens in Measured, re-renders
\* the chart from the result and shows it; from the event to the closing of
\* the chart it leaves the measurement result, its parameters, the locked
\* configuration and the available actions unchanged (so visualize can be
\* triggered again) and writes nothing to the storage directory.
C15_VisualizeOnlyRenders ==
    [][ /\ HandlerRuns("-VISUALIZE-") =>
              /\ Measured /\ Measured'
              /\ pc' = "show"
              /\ UNCHANGED <<data, measure_param, window_state, disabled, history,
                             result, saved, written, ser>>
              /\ ~disabled'["-VISUALIZE-"]
              /\ chart' = Visualized(data, measure_param)
              /\ chart'.rows = Derived(Table(data.table))
        /\ (pc = "show" /\ event = "-VISUALIZE-") =>
              /\ pc' \in {"show", "wait"}
              /\ UNCHANGED <<event, data, measure_param, chart, window_state,
                             disabled, history, result, saved, written, ser,
                             popup>>
              /\ ~disabled'["-VISUALIZE-"]
      ]_vars

\* C15 witness: the visualize handler has run in Measured, its chart was
\* closed, and a click on Visualize! made meanwhile makes it run again
C15_Witness ==
    /\ pc = "wait" /\ event = "-VISUALIZE-" /\ clicked = "-VISUALIZE-"
    /\ Measured
    /\ ~disabled["-VISUALIZE-"]
    /\ chart = Visualized(data, measure_param)

---------------------------------------------------------------------------
\* C16: the save handler writes, into the subdirectory of the locked storage
\* directory named {name}_{yymmdd-HHMM} after the locked name and the clock,
\* the measurement parameters, a table with the header row of the result's
\* columns plus one row per record, and the chart of the most recent
\* visualization pass; after that the session has ended and nothing follows.
Unpad(digits) == 10 * digits[1] + digits[2]

StampOf(stamp, now) ==
    /\ \A f \in {"yy", "mm", "dd", "HH", "MM"} :
          /\ Len(stamp[f]) = 2
          /\ \A i \in 1..2 : stamp[f][i] \in 0..9
    /\ Unpad(stamp.yy) = now.year % 100
    /\ Unpad(stamp.mm) = now.month
    /\ Unpad(stamp.dd) = now.day
    /\ Unpad(stamp.HH) = now.hour
    /\ Unpad(stamp.MM) = now.minute

C16_SaveWritesTheSession ==
    [][ /\ HandlerRuns("-SAVE N EXIT-") =>
              /\ Measured
              /\ saved'.folder = window_state.folder
              /\ saved'.name = window_state.name
              /\ \E now \in Nows : StampOf(saved'.stamp, now)
              /\ saved'.measure_param = measure_param
              /\ saved'.measure_param # NoParam
              /\ saved'.csv.header = RawColumns
              /\ Len(saved'.csv.lines) = Len(Table(data.table))
              /\ \A i \in 1..Len(saved'.csv.lines) :
                    saved'.csv.lines[i] = Table(data.table)[i]
              /\ saved'.chart = chart
              /\ saved'.chart = Visualized(data, measure_param)
              /\ pc' = "exited"
        /\ saved' # saved => HandlerRuns("-SAVE N EXIT-")
        /\ pc = "exited" => UNCHANGED vars
      ]_vars

\* C16 witness: the six-record table was saved at 09:05 on 7 March 2009
C16_Witness ==
    /\ pc = "exited" /\ event = "-SAVE N EXIT-"
    /\ saved.folder = "/tmp" /\ saved.name \in {"run1", "run2"}
    /\ saved.stamp = [yy |-> <<0, 9>>, mm |-> <<0, 3>>, dd |-> <<0, 7>>,
                      HH |-> <<0, 9>>, MM |-> <<0, 5>>]
    /\ Len(saved.csv.lines) = 6
    /\ Len(saved.csv.header) = 5

---------------------------------------------------------------------------
\* C17: whenever the program waits for an event with no click recorded
\* already, in whatever state of the workflow, the terminate action can be
\* taken; when the operator confirms it
\* the session ends with no file written to the storage directory and nothing
\* of the result or the configuration kept for a later step; when the operator
\* does not confirm, the session state is unchanged and the session continues.
C17_Terminate ==
    /\ []((pc = "wait" /\ clicked = None) => /\ ENABLED Terminate(TRUE)
                                            /\ ENABLED Terminate(FALSE))
    /\ [][ HandlerRuns("-TERMINATE-") =>
              IF answer' = None
              THEN /\ pc' = "wait"
                   /\ UNCHANGED <<window_state, disabled, history, ser, result,
                                  data, measure_param, chart, saved, written>>
              ELSE /\ answer' = "Terminate"
                   /\ pc' = "exited"
                   /\ saved' = NoSave
                   /\ UNCHANGED <<saved, written>>
                   /\ ser' # "open"
       ]_vars
    /\ [][ (pc = "exited" /\ saved = NoSave) => UNCHANGED vars ]_vars

\* C17 witness: a measured session was terminated on confirmation, unsaved
C17_Witness ==
    /\ pc = "exited" /\ event = "-TERMINATE-" /\ answer = "Terminate"
    /\ Measured /\ data # NoData
    /\ saved = NoSave

---------------------------------------------------------------------------
\* C18: everything the program writes to the serial transport (the connect
\* handshake, the sys_init command, the measure command) is a single JSON
\* object terminated by a newline, written whole and flushed before any read.
C18_WritesAreJsonLines ==
    written # NoWrite =>
        /\ written.json = "object"
        /\ written.nl
        /\ written.flushed

---------------------------------------------------------------------------
\* C19: for every record of the measurement the rendered chart holds
\* power = voltage * current and efficiency = thrust / power (20 and 1/5 for
\* voltage 10, current 2, thrust 4); for a record whose power is 0 the
\* efficiency is one of the sentinels inf, -inf, nan, and the visualization
\* completes: the chart of the result exists whenever the handler shows it
\* and whenever the session is Measured.
C19_DerivedFields ==
    /\ pc = "show" => (chart # NoChart /\ chart.data = data)
    /\ Measured => chart # NoChart
    /\ chart # NoChart =>
          LET rows == Table(chart.data.table)
          IN  /\ Len(chart.rows) = Len(rows)
              /\ \A i \in 1..Len(rows) :
                    LET r == rows[i]
                        d == chart.rows[i]
                    IN  /\ d.power = r.voltage * r.current
                        /\ d.power # 0 =>
                              /\ d.efficiency.kind = "finite"
                              /\ d.efficiency.den > 0
                              /\ d.efficiency.num * d.power
                                    = r.thrust * d.efficiency.den
                        /\ d.power = 0 =>
                              /\ d.efficiency.kind \in {"inf", "-inf", "nan"}
                              /\ d.efficiency.kind = "inf" <=> r.thrust > 0
                              /\ d.efficiency.kind = "-inf" <=> r.thrust < 0
                        /\ (r.voltage = 10 /\ r.current = 2 /\ r.thrust = 4) =>
                              /\ d.power = 20
                              /\ d.efficiency = Float("finite", 1, 5)
                        /\ (r.voltage = 0 /\ r.current = 0 /\ r.thrust = 1) =>
                              /\ d.power = 0
                              /\ d.efficiency = Float("inf", 0, 0)

\* C19 witness: a chart was rendered from the table that holds the record
\* (0, 0, 1) of power 0 and the record (10, 2, 4) of power 20
C19_Witness ==
    /\ pc = "wait" /\ Measured
    /\ chart.data.table = "table_b"
    /\ chart.rows[1] = [power |-> 0, efficiency |-> Float("inf", 0, 0)]
    /\ chart.rows[2].efficiency.kind = "nan"
    /\ chart.rows[3].efficiency.kind = "-inf"
    /\ chart.rows[4] = [power |-> 20, efficiency |-> Float("finite", 1, 5)]
    /\ chart.rows[6] = [power |-> -12, efficiency |-> Float("finite", -1, 4)]

---------------------------------------------------------------------------
\* C20: a sys_init or measure command is written, and the connection for it
\* opened, only in the handler of that action and only after the operator
\* confirmed its safety checklist; when the operator dismisses the checklist
\* no connection is opened, nothing is written, and the session state and
\* the available actions are unchanged.
C20_CommandOnlyAfterChecklist ==
    [][ /\ CommandSent("sys_init") =>
              (event' = "-SYS INIT-" /\ answer' = "Sys Init")
        /\ CommandSent("measure") =>
              (event' = "-MEASURE-" /\ answer' = "Measure")
        /\ (written' # written /\ written'.json = "object") =>
              /\ CommandSent("sys_init") \/ CommandSent("measure")
              /\ written'.body = call'.cmd
        /\ ((HandlerRuns("-SYS INIT-") \/ HandlerRuns("-MEASURE-"))
              /\ ser' # ser) => answer' # None
        /\ ((HandlerRuns("-SYS INIT-") \/ HandlerRuns("-MEASURE-"))
              /\ answer' = None) =>
              /\ pc' = "wait"
              /\ ser' # "open"
              /\ UNCHANGED <<ser, written, inbox, elapsed, call, result,
                             window_state, disabled, history, data,
                             measure_param, chart, saved>>
      ]_vars

\* C20 witness: the measure checklist was dismissed in an initialized
\* session: measure is still available and no measure command was written
C20_Witness ==
    /\ pc = "wait" /\ event = "-MEASURE-" /\ answer = None
    /\ Initialized /\ ~Measured /\ ~MeasureFailed
    /\ ~disabled["-MEASURE-"]
    /\ written.body.command_type = "sys_init"
    /\ ser = "closed"

============================================================================
